---- MODULE Spec2Model ----
(***************************************************************************)
(* All-time ranking sessions of backend/app/routes/all_time.py: the        *)
(* tables all_time_rankings and all_time_matchup_votes, the handlers       *)
(* start_ranking, submit_vote and complete_ranking, and the helpers        *)
(* compute_elo_update and get_next_matchup.                                *)
(*                                                                         *)
(* A handler reads its rows, computes on the copies it holds, and writes   *)
(* at db.commit(); the model keeps that split (one action per database     *)
(* round trip), so that requests served by different workers interleave    *)
(* between a read and the commit.  SpecSeq is the same program with one    *)
(* request in flight at a time.                                            *)
(*                                                                         *)
(* Scores are Python floats in the source; here they are fixed-point       *)
(* integers, ScoreScale units to the point.                                *)
(***************************************************************************)
EXTENDS Integers, Sequences, FiniteSets, TLC

\* ------------------------------------------------------------------ bounds
\* pool entries over all rows of all_time_rankings, with one worker
MaxPooled == 4
\* the same with NumProcs workers
MaxPooledShared == 3
NumProcs == 2
\* rows of all_time_matchup_votes
MaxVotes == 6

\* --------------------------------------------------------------- constants
K == 32
StartScore == 1500
ScoreScale == 1000
ExpScale == 10000
ExpTerms == 12
Ln10Over400 == 5756
NoSlug == 0
NoTotal == -1
NoToken == ""
NoPair == <<>>

Procs == 1..NumProcs
Items == {"A", "B", "C", "D"}
Catalog == <<"A", "B", "C">>
ValidSizes == {0, 10, 50, 100}
CallerInputs == {NoToken, "u1", "u2"}
WinnerInputs == Items
\* rows of custom_lists (create_custom_list accepts any list of 2..200 ids)
CustomLists == [L1 |-> <<"A", "B", "A">>]
\* the StartRankingRequest bodies and X-Session-Id headers that are tried
StartInputs ==
    { [ranking_size |-> 10, custom_list_code |-> "", player_pool |-> <<"A", "B", "C", "D">>, session_id |-> "u1"],
      [ranking_size |-> 0,  custom_list_code |-> "", player_pool |-> <<"A", "B", "C">>, session_id |-> NoToken],
      [ranking_size |-> 10, custom_list_code |-> "", player_pool |-> <<>>, session_id |-> NoToken],
      [ranking_size |-> 10, custom_list_code |-> "L1", player_pool |-> <<>>, session_id |-> NoToken],
      [ranking_size |-> 10, custom_list_code |-> "", player_pool |-> <<"A", "A">>, session_id |-> NoToken],
      [ranking_size |-> 0,  custom_list_code |-> "", player_pool |-> <<"A", "A">>, session_id |-> NoToken],
      [ranking_size |-> 0,  custom_list_code |-> "", player_pool |-> <<"A">>, session_id |-> NoToken],
      [ranking_size |-> 7,  custom_list_code |-> "", player_pool |-> <<"A", "B">>, session_id |-> NoToken],
      [ranking_size |-> 10, custom_list_code |-> "zz", player_pool |-> <<>>, session_id |-> NoToken] }

\* rankings: table all_time_rankings, row id = index
\* votes:    table all_time_matchup_votes, in insertion order
\* req:      what each worker holds of the request it is serving
VARIABLES rankings, votes, req

vars == <<rankings, votes, req>>

\* ================================================================ helpers
Range(s) == {s[i] : i \in 1..Len(s)}

\* dict comprehension {pid: {...} for pid in player_ids}: one entry per
\* distinct id, in order of first occurrence
RECURSIVE DictKeys(_)
DictKeys(player_ids) ==
    IF player_ids = <<>> THEN <<>>
    ELSE LET front == DictKeys(SubSeq(player_ids, 1, Len(player_ids) - 1))
             x == player_ids[Len(player_ids)]
         IN IF x \in Range(front) THEN front ELSE Append(front, x)

\* ratings that start with one win each
InitialScoresOneWin(player_ids) ==
    LET keys == DictKeys(player_ids)
    IN [i \in 1..Len(keys) |->
          [id |-> keys[i], score |-> StartScore * ScoreScale, wins |-> 1, losses |-> 0]]

InitialScores(player_ids) ==
    LET keys == DictKeys(player_ids)
    IN [i \in 1..Len(keys) |->
          [id |-> keys[i], score |-> StartScore * ScoreScale, wins |-> 0, losses |-> 0]]

IndexOf(player_scores, pid) ==
    CHOOSE i \in 1..Len(player_scores) : player_scores[i].id = pid

ScoreOf(player_scores, pid) == player_scores[IndexOf(player_scores, pid)].score

Abs(x) == IF x < 0 THEN -x ELSE x

\* ------------------------------------------------------------ rating model
\* e^(x / ExpScale) * ExpScale for x >= 0, by its power series
RECURSIVE ExpSeries(_, _, _, _)
ExpSeries(x, n, term, sum) ==
    IF n > ExpTerms THEN sum
    ELSE LET t == (term * x) \div (n * ExpScale)
         IN ExpSeries(x, n + 1, t, sum + t)

\* 10 ** (d / 400) * ExpScale for a score difference d >= 0 (in score units)
Pow10(d) == ExpSeries((d * Ln10Over400) \div (ScoreScale * 100), 1, ExpScale, ExpScale)

\* k * (1 - expected_winner), in score units
EloGain(winner_score, loser_score) ==
    LET d == loser_score - winner_score
        q == Pow10(Abs(d))
    IN IF d >= 0 THEN (K * ScoreScale * q) \div (ExpScale + q)
       ELSE (K * ScoreScale * ExpScale) \div (ExpScale + q)

\* the update with the full k in place of k * (1 - expected_winner)
compute_elo_update_full_k(winner_score, loser_score) ==
    <<winner_score + K * ScoreScale, loser_score - K * ScoreScale>>

\* the loser charged by its own expectation against the winner's rating gain
compute_elo_update_unpaired(winner_score, loser_score) ==
    <<winner_score + EloGain(winner_score, loser_score),
      loser_score - EloGain(loser_score, winner_score)>>

compute_elo_update(winner_score, loser_score) ==
    LET gain == EloGain(winner_score, loser_score)
    IN <<winner_score + gain, loser_score - gain>>

\* ------------------------------------------------------- matchup selector
\* diff <= best_diff
CloserOrEqual(diff, best_pair, best_diff) == best_pair = NoPair \/ diff <= best_diff

\* diff < best_diff, with best_diff = float('inf') until a pair is held
Closer(diff, best_pair, best_diff) == best_pair = NoPair \/ diff < best_diff

\* the double loop over i < j
RECURSIVE ScanPairs(_, _, _, _, _, _)
ScanPairs(player_scores, completed_pairs, i, j, best_pair, best_diff) ==
    LET n == Len(player_scores)
    IN IF i > n THEN best_pair
       ELSE IF j > n
            THEN ScanPairs(player_scores, completed_pairs, i + 1, i + 2, best_pair, best_diff)
       ELSE LET pair == {player_scores[i].id, player_scores[j].id}
                diff == Abs(player_scores[i].score - player_scores[j].score)
            IN IF pair \in completed_pairs
               THEN ScanPairs(player_scores, completed_pairs, i, j + 1, best_pair, best_diff)
               ELSE IF Closer(diff, best_pair, best_diff)
                    THEN ScanPairs(player_scores, completed_pairs, i, j + 1,
                                   <<player_scores[i].id, player_scores[j].id>>, diff)
                    ELSE ScanPairs(player_scores, completed_pairs, i, j + 1, best_pair, best_diff)

\* the round-robin exit taken one pair early, whatever the ranking_size
get_next_matchup_early_any_size(player_scores, completed_pairs, ranking_size, matchups_completed) ==
    LET n == Len(player_scores)
        total_needed == (n * (n - 1)) \div 2
    IN IF Cardinality(completed_pairs) >= total_needed - 1
       THEN NoPair
       ELSE ScanPairs(player_scores, completed_pairs, 1, 2, NoPair, 0)

\* the round-robin exit taken one pair early
get_next_matchup_early(player_scores, completed_pairs, ranking_size, matchups_completed) ==
    LET n == Len(player_scores)
        total_needed == (n * (n - 1)) \div 2
    IN IF ranking_size > 0 /\ Cardinality(completed_pairs) >= total_needed - 1
       THEN NoPair
       ELSE ScanPairs(player_scores, completed_pairs, 1, 2, NoPair, 0)

get_next_matchup(player_scores, completed_pairs, ranking_size, matchups_completed) ==
    LET n == Len(player_scores)
        total_needed == (n * (n - 1)) \div 2
    IN IF ranking_size > 0 /\ Cardinality(completed_pairs) >= total_needed
       THEN NoPair
       ELSE ScanPairs(player_scores, completed_pairs, 1, 2, NoPair, 0)

\* ============================================================== responses
Idle == [pc |-> "idle"]

\* HTTPException raised by handler op
Failed(op, ranking_id, status) ==
    [pc |-> "done", op |-> op, ranking_id |-> ranking_id, status |-> status,
     next_matchup |-> NoPair, is_complete |-> FALSE, share_slug |-> NoSlug]

Returned(op, ranking_id, next_matchup, is_complete, share_slug) ==
    [pc |-> "done", op |-> op, ranking_id |-> ranking_id, status |-> "ok",
     next_matchup |-> next_matchup, is_complete |-> is_complete, share_slug |-> share_slug]

\* secrets.token_urlsafe(8): a token no row and no request holds
HeldSlugs ==
    {rankings[i].share_slug : i \in 1..Len(rankings)} \cup
    {req[q].share_slug : q \in {x \in Procs : req[x].pc # "idle"}}

generate_share_slug ==
    CHOOSE k \in 1..(Len(rankings) + NumProcs + 1) :
        /\ k \notin HeldSlugs
        /\ \A m \in 1..(k - 1) : m \in HeldSlugs

\* ========================================================== start_ranking
\* the player pool of a request (custom list, given pool, or catalog prefix)
ResolvePool(request) ==
    IF request.custom_list_code # ""
    THEN CustomLists[request.custom_list_code]
    ELSE IF request.player_pool # <<>>
    THEN request.player_pool
    ELSE LET size == IF request.ranking_size > 0 THEN request.ranking_size ELSE Len(Catalog)
         IN SubSeq(Catalog, 1, IF size < Len(Catalog) THEN size ELSE Len(Catalog))

TotalMatchups(ranking_size, player_ids) ==
    LET n == Len(player_ids)
    IN IF ranking_size > 0 THEN (n * (n - 1)) \div 2 ELSE NoTotal

NewRanking(request, player_ids) ==
    [session_id |-> request.session_id,
     ranking_size |-> request.ranking_size,
     player_rankings |-> InitialScores(player_ids),
     player_pool |-> player_ids,
     is_complete |-> FALSE,
     matchups_completed |-> 0,
     total_matchups |-> TotalMatchups(request.ranking_size, player_ids),
     share_slug |-> NoSlug]

\* the rows of all_time_rankings after start_ranking has served request
StartRows(request) ==
    IF request.ranking_size \notin ValidSizes THEN rankings
    ELSE IF request.custom_list_code # "" /\ request.custom_list_code \notin DOMAIN CustomLists
    THEN rankings
    ELSE IF Len(ResolvePool(request)) < 2 THEN rankings
    ELSE Append(rankings, NewRanking(request, ResolvePool(request)))

\* the response of start_ranking
StartResponse(request) ==
    IF request.ranking_size \notin ValidSizes THEN Failed("start", 0, "InvalidSize")
    ELSE IF request.custom_list_code # "" /\ request.custom_list_code \notin DOMAIN CustomLists
    THEN Failed("start", 0, "ListNotFound")
    ELSE IF Len(ResolvePool(request)) < 2 THEN Failed("start", 0, "InvalidPool")
    ELSE LET next_pair == get_next_matchup(InitialScores(ResolvePool(request)), {},
                                           request.ranking_size, 0)
             ranking_id == Len(rankings) + 1
         IN IF next_pair = NoPair
            THEN Failed("start", ranking_id, "NoFirstMatchup")
            ELSE Returned("start", ranking_id, next_pair, FALSE, NoSlug)

\* entries of player_pool over all rows
RECURSIVE Pooled(_)
Pooled(rows) ==
    IF rows = <<>> THEN 0
    ELSE Len(rows[Len(rows)].player_pool) + Pooled(SubSeq(rows, 1, Len(rows) - 1))

start_ranking(p, request, max_pooled) ==
    /\ req[p].pc = "idle"
    /\ Pooled(StartRows(request)) <= max_pooled
    /\ rankings' = StartRows(request)
    /\ req' = [req EXCEPT ![p] = StartResponse(request)]
    /\ UNCHANGED votes

\* ============================================================ submit_vote
ExistingVotes(ranking_id) == SelectSeq(votes, LAMBDA v : v.ranking_id = ranking_id)

CompletedPairs(existing_votes) ==
    {{existing_votes[i].player1_id, existing_votes[i].player2_id} : i \in 1..Len(existing_votes)}

InPair(winner_id, current_pair) == winner_id = current_pair[1] \/ winner_id = current_pair[2]

LoserOf(current_pair, winner_id) ==
    IF current_pair[2] = winner_id THEN current_pair[1] ELSE current_pair[2]

\* the update with the loser's new score left unwritten
UpdateScoresWinnerOnly(player_scores, winner_id, loser_id) ==
    LET new == compute_elo_update(ScoreOf(player_scores, winner_id),
                                  ScoreOf(player_scores, loser_id))
    IN [i \in 1..Len(player_scores) |->
          IF player_scores[i].id = winner_id
          THEN [player_scores[i] EXCEPT !.score = new[1], !.wins = @ + 1]
          ELSE IF player_scores[i].id = loser_id
          THEN [player_scores[i] EXCEPT !.losses = @ + 1]
          ELSE player_scores[i]]

\* the update that leaves the loser's losses as they were
UpdateScoresNoLossCount(player_scores, winner_id, loser_id) ==
    LET new == compute_elo_update(ScoreOf(player_scores, winner_id),
                                  ScoreOf(player_scores, loser_id))
    IN [i \in 1..Len(player_scores) |->
          IF player_scores[i].id = winner_id
          THEN [player_scores[i] EXCEPT !.score = new[1], !.wins = @ + 1]
          ELSE IF player_scores[i].id = loser_id
          THEN [player_scores[i] EXCEPT !.score = new[2]]
          ELSE player_scores[i]]

\* player_scores after the Elo update and the win / loss increments
UpdateScores(player_scores, winner_id, loser_id) ==
    LET new == compute_elo_update(ScoreOf(player_scores, winner_id),
                                  ScoreOf(player_scores, loser_id))
    IN [i \in 1..Len(player_scores) |->
          IF player_scores[i].id = winner_id
          THEN [player_scores[i] EXCEPT !.score = new[1], !.wins = @ + 1]
          ELSE IF player_scores[i].id = loser_id
          THEN [player_scores[i] EXCEPT !.score = new[2], !.losses = @ + 1]
          ELSE player_scores[i]]

NewVote(ranking_id, current_pair, winner_id) ==
    [ranking_id |-> ranking_id, player1_id |-> current_pair[1],
     player2_id |-> current_pair[2], winner_id |-> winner_id]

NotIncremented(matchups_completed) == matchups_completed

\* ranking.matchups_completed += 1 on the loaded row
Incremented(matchups_completed) == matchups_completed + 1

\* submit_vote with the voted pair left out of completed_pairs when it looks
\* for the next pair
PendingVotePairNotAdded(ranking_id, ranking, current_pair, winner_id) ==
    LET player_scores == UpdateScores(ranking.player_rankings, winner_id,
                                      LoserOf(current_pair, winner_id))
        matchups_completed == Incremented(ranking.matchups_completed)
        completed_pairs == CompletedPairs(ExistingVotes(ranking_id))
        next_pair == get_next_matchup(player_scores, completed_pairs,
                                      ranking.ranking_size, matchups_completed)
    IN [pc |-> "vote_commit", op |-> "vote", ranking_id |-> ranking_id,
        vote |-> NewVote(ranking_id, current_pair, winner_id),
        player_rankings |-> player_scores,
        matchups_completed |-> matchups_completed,
        next_pair |-> next_pair,
        is_complete |-> (next_pair = NoPair),
        share_slug |-> IF next_pair = NoPair THEN generate_share_slug ELSE NoSlug]

\* what submit_vote holds when it reaches db.commit(): the pending vote row
\* and the attributes it has set on the ranking row it loaded
PendingVote(ranking_id, ranking, current_pair, winner_id) ==
    LET player_scores == UpdateScores(ranking.player_rankings, winner_id,
                                      LoserOf(current_pair, winner_id))
        matchups_completed == Incremented(ranking.matchups_completed)
        completed_pairs == CompletedPairs(ExistingVotes(ranking_id)) \cup
                           {{current_pair[1], current_pair[2]}}
        next_pair == get_next_matchup(player_scores, completed_pairs,
                                      ranking.ranking_size, matchups_completed)
    IN [pc |-> "vote_commit", op |-> "vote", ranking_id |-> ranking_id,
        vote |-> NewVote(ranking_id, current_pair, winner_id),
        player_rankings |-> player_scores,
        matchups_completed |-> matchups_completed,
        next_pair |-> next_pair,
        is_complete |-> (next_pair = NoPair),
        share_slug |-> IF next_pair = NoPair THEN generate_share_slug ELSE NoSlug]

\* submit_vote with the pending-matchup test ahead of the is_complete test
VoteOutcomePairFirst(ranking_id, winner_id, session_id) ==
    IF ranking_id \notin 1..Len(rankings) THEN Failed("vote", ranking_id, "SessionNotFound")
    ELSE LET ranking == rankings[ranking_id]
             current_pair == get_next_matchup(ranking.player_rankings,
                                              CompletedPairs(ExistingVotes(ranking_id)),
                                              ranking.ranking_size, ranking.matchups_completed)
         IN IF ranking.session_id # NoToken /\ ranking.session_id # session_id
            THEN Failed("vote", ranking_id, "Forbidden")
            ELSE IF current_pair = NoPair
            THEN Failed("vote", ranking_id, "NoPendingMatchup")
            ELSE IF ranking.is_complete
            THEN Failed("vote", ranking_id, "SessionAlreadyComplete")
            ELSE IF ~InPair(winner_id, current_pair)
            THEN Failed("vote", ranking_id, "InvalidWinner")
            ELSE PendingVote(ranking_id, ranking, current_pair, winner_id)

\* submit_vote up to db.commit(): an HTTPException or the pending writes
VoteOutcome(ranking_id, winner_id, session_id) ==
    IF ranking_id \notin 1..Len(rankings) THEN Failed("vote", ranking_id, "SessionNotFound")
    ELSE LET ranking == rankings[ranking_id]
             current_pair == get_next_matchup(ranking.player_rankings,
                                              CompletedPairs(ExistingVotes(ranking_id)),
                                              ranking.ranking_size, ranking.matchups_completed)
         IN IF ranking.session_id # NoToken /\ ranking.session_id # session_id
            THEN Failed("vote", ranking_id, "Forbidden")
            ELSE IF ranking.is_complete
            THEN Failed("vote", ranking_id, "SessionAlreadyComplete")
            ELSE IF current_pair = NoPair
            THEN Failed("vote", ranking_id, "NoPendingMatchup")
            ELSE IF ~InPair(winner_id, current_pair)
            THEN Failed("vote", ranking_id, "InvalidWinner")
            ELSE PendingVote(ranking_id, ranking, current_pair, winner_id)

submit_vote_read(p, ranking_id, winner_id, session_id) ==
    /\ req[p].pc = "idle"
    /\ req' = [req EXCEPT ![p] = VoteOutcome(ranking_id, winner_id, session_id)]
    /\ UNCHANGED <<rankings, votes>>

\* the UPDATE without the is_complete and share_slug columns
VoteWriteScoresOnly(row, pending) ==
    [row EXCEPT !.player_rankings = pending.player_rankings,
                !.matchups_completed = pending.matchups_completed]

\* the UPDATE with is_complete set whatever the selector returned
VoteWriteAlwaysComplete(row, pending) ==
    [row EXCEPT !.player_rankings = pending.player_rankings,
                !.matchups_completed = pending.matchups_completed,
                !.is_complete = TRUE,
                !.share_slug = IF pending.is_complete THEN pending.share_slug ELSE @]

\* the UPDATE with the share_slug column but without is_complete
VoteWriteTokenWithoutFlag(row, pending) ==
    [row EXCEPT !.player_rankings = pending.player_rankings,
                !.matchups_completed = pending.matchups_completed,
                !.share_slug = IF pending.is_complete THEN pending.share_slug ELSE @]

\* the UPDATE of the ranking row: the attributes submit_vote has set
VoteWrite(row, pending) ==
    [row EXCEPT !.player_rankings = pending.player_rankings,
                !.matchups_completed = pending.matchups_completed,
                !.is_complete = IF pending.is_complete THEN TRUE ELSE @,
                !.share_slug = IF pending.is_complete THEN pending.share_slug ELSE @]

submit_vote_commit(p) ==
    /\ req[p].pc = "vote_commit"
    /\ Len(votes) < MaxVotes
    /\ votes' = Append(votes, req[p].vote)
    /\ rankings' = [rankings EXCEPT ![req[p].ranking_id] = VoteWrite(@, req[p])]
    /\ req' = [req EXCEPT ![p] = Returned("vote", req[p].ranking_id, req[p].next_pair,
                                           req[p].is_complete, req[p].share_slug)]

\* ======================================================= complete_ranking
\* a token generated whenever a share link is requested, held or not
PendingCompleteAlwaysNewToken(ranking_id, ranking, generate_share_link) ==
    [pc |-> "complete_commit", op |-> "complete", ranking_id |-> ranking_id,
     generate_share_link |-> generate_share_link,
     set_slug |-> generate_share_link,
     share_slug |-> IF generate_share_link THEN generate_share_slug ELSE ranking.share_slug]

\* what complete_ranking holds when it reaches db.commit()
PendingComplete(ranking_id, ranking, generate_share_link) ==
    LET set_slug == generate_share_link /\ ranking.share_slug = NoSlug
    IN [pc |-> "complete_commit", op |-> "complete", ranking_id |-> ranking_id,
        generate_share_link |-> generate_share_link,
        set_slug |-> set_slug,
        share_slug |-> IF set_slug THEN generate_share_slug ELSE ranking.share_slug]

\* complete_ranking without the ownership test
CompleteOutcomeAnyCaller(ranking_id, session_id, generate_share_link) ==
    IF ranking_id \notin 1..Len(rankings) THEN Failed("complete", ranking_id, "SessionNotFound")
    ELSE PendingComplete(ranking_id, rankings[ranking_id], generate_share_link)

CompleteOutcome(ranking_id, session_id, generate_share_link) ==
    IF ranking_id \notin 1..Len(rankings) THEN Failed("complete", ranking_id, "SessionNotFound")
    ELSE LET ranking == rankings[ranking_id]
         IN IF ranking.session_id # NoToken /\ ranking.session_id # session_id
            THEN Failed("complete", ranking_id, "Forbidden")
            ELSE PendingComplete(ranking_id, ranking, generate_share_link)

complete_ranking_read(p, ranking_id, session_id, generate_share_link) ==
    /\ req[p].pc = "idle"
    /\ req' = [req EXCEPT ![p] = CompleteOutcome(ranking_id, session_id, generate_share_link)]
    /\ UNCHANGED <<rankings, votes>>

\* a completion that also resets the vote counter
CompleteWriteResetCounter(row, pending) ==
    [row EXCEPT !.is_complete = TRUE,
                !.share_slug = IF pending.set_slug THEN pending.share_slug ELSE @,
                !.matchups_completed = 0]

\* the UPDATE without the is_complete column
CompleteWriteTokenOnly(row, pending) ==
    [row EXCEPT !.share_slug = IF pending.set_slug THEN pending.share_slug ELSE @]

CompleteWrite(row, pending) ==
    [row EXCEPT !.is_complete = TRUE,
                !.share_slug = IF pending.set_slug THEN pending.share_slug ELSE @]

complete_ranking_commit(p) ==
    /\ req[p].pc = "complete_commit"
    /\ rankings' = [rankings EXCEPT ![req[p].ranking_id] = CompleteWrite(@, req[p])]
    /\ req' = [req EXCEPT ![p] = Returned("complete", req[p].ranking_id, NoPair,
                                           TRUE, req[p].share_slug)]
    /\ UNCHANGED votes

\* ================================================ ranking materialization
\* round(score, 1), in score units
RoundedScore(score) ==
    ((score + ScoreScale \div 20) \div (ScoreScale \div 10)) * (ScoreScale \div 10)

\* an entry placed ahead of the entries of equal score
InsertByScoreAheadOfEqual(sorted_players, entry) ==
    LET ahead == Cardinality({i \in 1..Len(sorted_players) :
                                 sorted_players[i].score > entry.score})
    IN SubSeq(sorted_players, 1, ahead) \o <<entry>> \o
       SubSeq(sorted_players, ahead + 1, Len(sorted_players))

\* sorted() is stable, also with reverse=True: an entry goes behind the
\* entries of greater or equal score that precede it in the dict
InsertByScore(sorted_players, entry) ==
    LET ahead == Cardinality({i \in 1..Len(sorted_players) :
                                 sorted_players[i].score >= entry.score})
    IN SubSeq(sorted_players, 1, ahead) \o <<entry>> \o
       SubSeq(sorted_players, ahead + 1, Len(sorted_players))

\* sorted(player_scores.items(), key=score, reverse=True)
RECURSIVE SortedByScore(_)
SortedByScore(player_scores) ==
    IF player_scores = <<>> THEN <<>>
    ELSE InsertByScore(SortedByScore(SubSeq(player_scores, 1, Len(player_scores) - 1)),
                       player_scores[Len(player_scores)])

compute_rankings_from_scores(player_scores) ==
    LET sorted_players == SortedByScore(player_scores)
    IN [rank \in 1..Len(sorted_players) |->
          [rank |-> rank,
           player_id |-> sorted_players[rank].id,
           score |-> RoundedScore(sorted_players[rank].score),
           wins |-> sorted_players[rank].wins,
           losses |-> sorted_players[rank].losses]]

\* GetRankingResponse of handler op for the row of ranking_id
GetRankingResponse(op, ranking_id) ==
    [pc |-> "done", op |-> op, ranking_id |-> ranking_id, status |-> "ok",
     next_matchup |-> NoPair,
     ranking_size |-> rankings[ranking_id].ranking_size,
     is_complete |-> rankings[ranking_id].is_complete,
     matchups_completed |-> rankings[ranking_id].matchups_completed,
     total_matchups |-> rankings[ranking_id].total_matchups,
     current_rankings |-> compute_rankings_from_scores(rankings[ranking_id].player_rankings),
     share_slug |-> rankings[ranking_id].share_slug]

\* get_ranking answering for complete sessions only
GetOutcomeCompleteOnly(ranking_id) ==
    IF ranking_id \notin 1..Len(rankings) \/ ~rankings[ranking_id].is_complete
    THEN Failed("get", ranking_id, "SessionNotFound")
    ELSE GetRankingResponse("get", ranking_id)

GetOutcome(ranking_id) ==
    IF ranking_id \notin 1..Len(rankings) THEN Failed("get", ranking_id, "SessionNotFound")
    ELSE GetRankingResponse("get", ranking_id)

get_ranking(p, ranking_id) ==
    /\ req[p].pc = "idle"
    /\ req' = [req EXCEPT ![p] = GetOutcome(ranking_id)]
    /\ UNCHANGED <<rankings, votes>>

\* the rows whose share_slug is the one asked for
SharedRows(share_slug) == {i \in 1..Len(rankings) : rankings[i].share_slug = share_slug}

SharedOutcome(share_slug) ==
    IF SharedRows(share_slug) = {} THEN Failed("shared", 0, "SessionNotFound")
    ELSE GetRankingResponse("shared", CHOOSE i \in SharedRows(share_slug) :
                                          \A j \in SharedRows(share_slug) : i <= j)

get_shared_ranking(p, share_slug) ==
    /\ req[p].pc = "idle"
    /\ req' = [req EXCEPT ![p] = SharedOutcome(share_slug)]
    /\ UNCHANGED <<rankings, votes>>

\* ========================================================= failed commit
\* the pending vote row reaches the table although the commit failed
Flushed(table, pending) ==
    IF pending.op = "vote" /\ table = votes THEN Append(table, pending.vote) ELSE table

\* db.commit() raises: get_db closes the session, its pending writes are
\* rolled back
RolledBack(table, pending) == table

commit_failed(p) ==
    /\ req[p].pc \in {"vote_commit", "complete_commit"}
    /\ votes' = RolledBack(votes, req[p])
    /\ rankings' = RolledBack(rankings, req[p])
    /\ req' = [req EXCEPT ![p] = Failed(req[p].op, req[p].ranking_id, "PersistenceFailure")]

\* the response has been sent
Return(p) ==
    /\ req[p].pc = "done"
    /\ req' = [req EXCEPT ![p] = Idle]
    /\ UNCHANGED <<rankings, votes>>

Init ==
    /\ rankings = <<>>
    /\ votes = <<>>
    /\ req = [p \in Procs |-> Idle]

Step(p, max_pooled) ==
    \/ \E request \in StartInputs : start_ranking(p, request, max_pooled)
    \/ \E ranking_id \in 1..(Len(rankings) + 1), winner_id \in WinnerInputs, session_id \in CallerInputs :
          submit_vote_read(p, ranking_id, winner_id, session_id)
    \/ submit_vote_commit(p)
    \/ \E ranking_id \in 1..(Len(rankings) + 1), session_id \in CallerInputs, generate_share_link \in BOOLEAN :
          complete_ranking_read(p, ranking_id, session_id, generate_share_link)
    \/ complete_ranking_commit(p)
    \/ \E ranking_id \in 1..(Len(rankings) + 1) : get_ranking(p, ranking_id)
    \/ \E share_slug \in 1..(Len(rankings) + 1) : get_shared_ranking(p, share_slug)
    \/ commit_failed(p)
    \/ Return(p)

\* a response is on its way out before another worker takes its next step
Delivered(p) == \A q \in Procs \ {p} : req[q].pc # "done"

\* requests served by NumProcs workers, interleaved at their database round trips
Next == \E p \in Procs : Delivered(p) /\ Step(p, MaxPooledShared)

Spec == Init /\ [][Next]_vars

\* one worker: a request is served to its end before the next is taken
NextSeq == Step(1, MaxPooled)

SpecSeq == Init /\ [][NextSeq]_vars

\* ================================================= the selector on its own
\* get_next_matchup applied to the stored state of a session, as submit_vote
\* applies it
select_matchup(p, ranking_id) ==
    /\ req[p].pc = "idle"
    /\ ranking_id \in 1..Len(rankings)
    /\ req' = [req EXCEPT ![p] =
                  Returned("matchup", ranking_id,
                           get_next_matchup(rankings[ranking_id].player_rankings,
                                            CompletedPairs(ExistingVotes(ranking_id)),
                                            rankings[ranking_id].ranking_size,
                                            rankings[ranking_id].matchups_completed),
                           rankings[ranking_id].is_complete, NoSlug)]
    /\ UNCHANGED <<rankings, votes>>

\* a session row over ids with the given scores (in points)
SelectorRows(ids, scores, ranking_size, compared) ==
    <<[session_id |-> NoToken,
       ranking_size |-> ranking_size,
       player_rankings |-> [i \in 1..Len(ids) |->
            [id |-> ids[i], score |-> scores[i] * ScoreScale, wins |-> 0, losses |-> 0]],
       player_pool |-> ids,
       is_complete |-> FALSE,
       matchups_completed |-> Cardinality(compared),
       total_matchups |-> TotalMatchups(ranking_size, ids),
       share_slug |-> NoSlug]>>

\* one vote row per compared index pair, in lexicographic order
RECURSIVE SelectorVotes(_, _)
SelectorVotes(ids, compared) ==
    IF compared = {} THEN <<>>
    ELSE LET last == CHOOSE x \in compared :
                        \A y \in compared : y[1] < x[1] \/ (y[1] = x[1] /\ y[2] <= x[2])
         IN Append(SelectorVotes(ids, compared \ {last}),
                   NewVote(1, <<ids[last[1]], ids[last[2]]>>, ids[last[1]]))

SelectorPools == {<<"A", "B", "C">>, <<"A", "B", "C", "D">>}
SelectorScores == {1484, 1500, 1516}

InitSelector ==
    /\ \E ids \in SelectorPools, ranking_size \in {0, 10} :
         \E scores \in [1..Len(ids) -> SelectorScores],
            compared \in SUBSET {x \in (1..Len(ids)) \X (1..Len(ids)) : x[1] < x[2]} :
              /\ rankings = SelectorRows(ids, scores, ranking_size, compared)
              /\ votes = SelectorVotes(ids, compared)
    /\ req = [p \in Procs |-> Idle]

NextSelector == select_matchup(1, 1) \/ Return(1)

SpecSelector == InitSelector /\ [][NextSelector]_vars

\* ================================================================= claims
Sessions == 1..Len(rankings)

\* the vote log of session s: indices into votes, and its unordered pairs
VoteLog(s) == {i \in 1..Len(votes) : votes[i].ranking_id = s}
LoggedPairs(s) == {{votes[i].player1_id, votes[i].player2_id} : i \in VoteLog(s)}

RatedIds(s) == {rankings[s].player_rankings[i].id : i \in 1..Len(rankings[s].player_rankings)}
\* n(n-1)/2 over the rated items of session s
AllPairs(s) == {pr \in SUBSET RatedIds(s) : Cardinality(pr) = 2}

Bounded(s) == rankings[s].ranking_size > 0

\* the vote log of session s in insertion order
LogSeq(s) == SelectSeq(votes, LAMBDA v : v.ranking_id = s)

\* ratings as a map from item id
StoredRatings(s) ==
    [x \in RatedIds(s) |->
        LET e == rankings[s].player_rankings[
                    CHOOSE i \in 1..Len(rankings[s].player_rankings) :
                        rankings[s].player_rankings[i].id = x]
        IN [score |-> e.score, wins |-> e.wins, losses |-> e.losses]]

InitialRatings(s) ==
    [x \in {rankings[s].player_pool[i] : i \in 1..Len(rankings[s].player_pool)} |->
        [score |-> 1500 * ScoreScale, wins |-> 0, losses |-> 0]]

\* one vote put through the rating model
ReplayedVote(ratings, v) ==
    LET w == v.winner_id
        l == IF v.player1_id = w THEN v.player2_id ELSE v.player1_id
        new == compute_elo_update(ratings[w].score, ratings[l].score)
    IN [ratings EXCEPT ![w] = [score |-> new[1], wins |-> @.wins + 1, losses |-> @.losses],
                       ![l] = [score |-> new[2], wins |-> @.wins, losses |-> @.losses + 1]]

RECURSIVE Replayed(_, _)
Replayed(ratings, log) ==
    IF log = <<>> THEN ratings
    ELSE ReplayedVote(Replayed(ratings, SubSeq(log, 1, Len(log) - 1)), log[Len(log)])

\* a vote on session s is accepted in this step
VoteAccepted(s) ==
    /\ Len(votes') = Len(votes) + 1
    /\ votes'[Len(votes')].ranking_id = s

\* C1: in every session votes_completed equals the number of distinct
\* unordered pairs in its vote log, and every id of its pool has exactly one
\* entry in ratings.
C1_CounterMatchesPairs ==
    \A s \in Sessions :
        /\ rankings[s].matchups_completed = Cardinality(LoggedPairs(s))
        /\ \A k \in 1..Len(rankings[s].player_pool) :
              Cardinality({i \in 1..Len(rankings[s].player_rankings) :
                             rankings[s].player_rankings[i].id = rankings[s].player_pool[k]}) = 1

C1_Witness ==
    \E s \in Sessions :
        /\ rankings[s].matchups_completed = 3
        /\ rankings[s].is_complete
        /\ Cardinality(AllPairs(s)) = 6

\* C2: an accepted vote on a bounded session over n items leaves is_complete
\* true exactly when it is the n(n-1)/2-th vote of the session.
C2_CompleteOnLastPair ==
    [][\A s \in Sessions :
          (Bounded(s) /\ VoteAccepted(s)) =>
             (rankings'[s].is_complete <=>
                Cardinality({i \in 1..Len(votes') : votes'[i].ranking_id = s})
                  = Cardinality(AllPairs(s)))]_vars

C2_Witness ==
    \E s \in Sessions :
        /\ Bounded(s)
        /\ Cardinality(RatedIds(s)) = 4
        /\ Cardinality(VoteLog(s)) = 6
        /\ rankings[s].is_complete
        /\ \E p \in Procs : req[p].pc = "done" /\ req[p].op = "vote" /\ req[p].status = "ok"

\* C4: overlapping votes on one session end as if run one after the other: no
\* accepted vote's counter or rating update is lost, so the counter equals the
\* number of logged votes and the ratings are those of the log replayed.
C4_NoLostUpdate ==
    \A s \in Sessions :
        /\ rankings[s].matchups_completed = Cardinality(VoteLog(s))
        /\ StoredRatings(s) = Replayed(InitialRatings(s), LogSeq(s))

\* C5: replaying the vote log of a session in insertion order from the
\* initial ratings (1500, 0 wins, 0 losses for every pool item) through the
\* rating model gives the stored ratings.
C5_ReplayReproducesRatings ==
    \A s \in Sessions : Replayed(InitialRatings(s), LogSeq(s)) = StoredRatings(s)

C5_Witness ==
    \E s \in Sessions :
        /\ Len(LogSeq(s)) = 6
        /\ \E x, y \in RatedIds(s) :
              StoredRatings(s)[x].wins = 3 /\ StoredRatings(s)[y].losses = 3

\* C6: a submit_vote that ends in an error leaves the vote log and every
\* session row (ratings, votes_completed, is_complete, share_token) as
\* they were.
C6_FailedVoteChangesNothing ==
    [][\A p \in Procs :
          (/\ req[p].pc # "done"
           /\ req'[p].pc = "done"
           /\ req'[p].op = "vote"
           /\ req'[p].status # "ok") => (rankings' = rankings /\ votes' = votes)]_vars

C6_Witness ==
    \E p \in Procs :
        /\ req[p].pc = "done" /\ req[p].op = "vote"
        /\ req[p].status = "PersistenceFailure"
        /\ Cardinality(VoteLog(req[p].ranking_id)) = 2

\* a submit_vote on session s is taken up in this step
VoteAttempted(p, s) ==
    /\ req[p].pc = "idle"
    /\ req'[p].pc # "idle"
    /\ req'[p].op = "vote"
    /\ req'[p].ranking_id = s

\* bounded session s over two or more items has its n(n-1)/2 votes
AllVoted(s) ==
    /\ Bounded(s)
    /\ Cardinality(RatedIds(s)) >= 2
    /\ Cardinality(VoteLog(s)) = Cardinality(AllPairs(s))

\* C7 as stated: a vote attempted on a bounded session that has all its
\* n(n-1)/2 votes fails with NoPendingMatchup.
C7_FurtherVoteNoPendingMatchup ==
    [][\A s \in Sessions : \A p \in Procs :
          (AllVoted(s) /\ VoteAttempted(p, s)) =>
             (req'[p].pc = "done" /\ req'[p].status = "NoPendingMatchup")]_vars

\* C7 amended: with all n(n-1)/2 votes in and the session complete, such an
\* attempt fails with SessionAlreadyComplete, or with Forbidden when the
\* caller is not the owner of the session.
C7_FurtherVoteAlreadyComplete ==
    [][\A s \in Sessions : \A p \in Procs :
          (AllVoted(s) /\ rankings[s].is_complete /\ VoteAttempted(p, s)) =>
             /\ req'[p].pc = "done"
             /\ req'[p].status \in {"SessionAlreadyComplete", "Forbidden"}
             /\ req'[p].status = "Forbidden" => rankings[s].session_id # NoToken]_vars

C7_Witness ==
    \E p \in Procs :
        /\ req[p].pc = "done" /\ req[p].op = "vote"
        /\ req[p].status = "SessionAlreadyComplete"
        /\ req[p].ranking_id \in Sessions
        /\ AllVoted(req[p].ranking_id)
        /\ Cardinality(VoteLog(req[p].ranking_id)) = 6

\* C8: a start_ranking that ends in an error has created no session row.
C8_FailedStartCreatesNothing ==
    [][\A p \in Procs :
          (/\ req[p].pc = "idle"
           /\ req'[p].pc = "done"
           /\ req'[p].op = "start"
           /\ req'[p].status # "ok") => rankings' = rankings]_vars

\* C9: the stored pool of every session is a duplicate-free sequence of at
\* least 2 ids.
C9_PoolDuplicateFree ==
    \A s \in Sessions :
        /\ Len(rankings[s].player_pool) >= 2
        /\ \A i, j \in 1..Len(rankings[s].player_pool) :
              i # j => rankings[s].player_pool[i] # rankings[s].player_pool[j]

\* the index pairs i < j of session s that are not in its vote log
OpenPairs(s) ==
    LET ps == rankings[s].player_rankings
    IN {x \in (1..Len(ps)) \X (1..Len(ps)) :
          x[1] < x[2] /\ {ps[x[1]].id, ps[x[2]].id} \notin LoggedPairs(s)}

ScoreGap(s, x) ==
    LET a == rankings[s].player_rankings[x[1]].score
        b == rankings[s].player_rankings[x[2]].score
    IN IF a < b THEN b - a ELSE a - b

\* C10: the selector returns the open pair (one not yet compared) with the
\* smallest score gap, the first in the order i < j among equals, and none
\* only when no pair is open.
C10_FirstClosestOpenPair ==
    \A p \in Procs :
        (req[p].pc = "done" /\ req[p].op = "matchup") =>
            LET s == req[p].ranking_id
                ps == rankings[s].player_rankings
            IN IF OpenPairs(s) = {} THEN req[p].next_matchup = NoPair
               ELSE \E b \in OpenPairs(s) :
                      /\ req[p].next_matchup = <<ps[b[1]].id, ps[b[2]].id>>
                      /\ \A o \in OpenPairs(s) :
                            \/ ScoreGap(s, b) < ScoreGap(s, o)
                            \/ /\ ScoreGap(s, b) = ScoreGap(s, o)
                               /\ b[1] < o[1] \/ (b[1] = o[1] /\ b[2] <= o[2])

\* a tie among open pairs, and a compared pair that is closer than either
C10_Witness ==
    \E p \in Procs :
        /\ req[p].pc = "done" /\ req[p].op = "matchup"
        /\ req[p].next_matchup # NoPair
        /\ LET s == req[p].ranking_id
               ps == rankings[s].player_rankings
               all == {x \in (1..Len(ps)) \X (1..Len(ps)) : x[1] < x[2]}
           IN /\ \E b, o \in OpenPairs(s) :
                    /\ b # o
                    /\ req[p].next_matchup = <<ps[b[1]].id, ps[b[2]].id>>
                    /\ ScoreGap(s, b) = ScoreGap(s, o)
              /\ \E c \in all \ OpenPairs(s) :
                    \A o \in OpenPairs(s) : ScoreGap(s, c) < ScoreGap(s, o)

\* C3 as stated: no accepted vote on an unbounded session sets is_complete.
C3_VoteNeverCompletesUnbounded ==
    [][\A s \in Sessions :
          (~Bounded(s) /\ VoteAccepted(s)) => ~rankings'[s].is_complete]_vars

\* the submit_vote of worker p on session s commits in this step
VoteCommitted(p, s) ==
    /\ req[p].pc = "vote_commit"
    /\ req'[p].pc = "done"
    /\ req'[p].status = "ok"
    /\ req'[p].ranking_id = s

\* C3 amended: on an unbounded session submit_vote finds no next pair, and
\* sets is_complete, only when its vote leaves no pair of the rated items
\* uncompared; otherwise it returns a next pair and leaves is_complete as it
\* was.
C3_UnboundedCompletesOnExhaustion ==
    [][\A s \in Sessions : \A p \in Procs :
          (~Bounded(s) /\ VoteCommitted(p, s)) =>
             /\ req'[p].is_complete =>
                   {{votes'[i].player1_id, votes'[i].player2_id} :
                       i \in {j \in 1..Len(votes') : votes'[j].ranking_id = s}} = AllPairs(s)
             /\ req'[p].is_complete <=> req'[p].next_matchup = NoPair
             /\ rankings'[s].is_complete = (req'[p].is_complete \/ rankings[s].is_complete)]_vars

C3_Witness ==
    \E s \in Sessions :
        /\ ~Bounded(s)
        /\ LoggedPairs(s) = AllPairs(s)
        /\ Cardinality(AllPairs(s)) = 3
        /\ rankings[s].is_complete
        /\ \E p \in Procs : req[p].pc = "done" /\ req[p].op = "vote" /\ req[p].status = "ok"

\* the complete_ranking of worker p on session s commits in this step
CompleteCommitted(p, s) ==
    /\ req[p].pc = "complete_commit"
    /\ req'[p].pc = "done"
    /\ req'[p].status = "ok"
    /\ req'[p].ranking_id = s

\* the selector applied to what is stored of session s after the step
SelectorNoneAfter(s) ==
    get_next_matchup(rankings'[s].player_rankings,
                     {{votes'[i].player1_id, votes'[i].player2_id} :
                         i \in {j \in 1..Len(votes') : votes'[j].ranking_id = s}},
                     rankings'[s].ranking_size,
                     rankings'[s].matchups_completed) = NoPair

\* C11 as stated: is_complete never returns to false, and turns true only in
\* a step after which the selector has no pair left for the session.
C11_CompleteOnlyOnExhaustion ==
    [][\A s \in Sessions :
          /\ rankings[s].is_complete => rankings'[s].is_complete
          /\ (~rankings[s].is_complete /\ rankings'[s].is_complete) =>
                SelectorNoneAfter(s)]_vars

\* C11 amended: is_complete never returns to false (so it turns true at most
\* once), and it turns true only at the commit of a complete_ranking, or at
\* the commit of a submit_vote whose selector call returned no pair.
C11_CompleteOnExhaustionOrFinalize ==
    [][\A s \in Sessions :
          /\ rankings[s].is_complete => rankings'[s].is_complete
          /\ (~rankings[s].is_complete /\ rankings'[s].is_complete) =>
                \E p \in Procs :
                    \/ CompleteCommitted(p, s)
                    \/ /\ VoteCommitted(p, s)
                       /\ req'[p].next_matchup = NoPair
                       /\ SelectorNoneAfter(s)]_vars

\* a session finalized with pairs still open, after at least one vote
C11_Witness ==
    \E p \in Procs :
        /\ req[p].pc = "done" /\ req[p].op = "complete" /\ req[p].status = "ok"
        /\ req[p].ranking_id \in Sessions
        /\ rankings[req[p].ranking_id].is_complete
        /\ VoteLog(req[p].ranking_id) # {}
        /\ LoggedPairs(req[p].ranking_id) # AllPairs(req[p].ranking_id)

\* C12: a share_token that is set never changes, whatever the order or
\* interleaving of submit_vote and complete_ranking requests.
C12_TokenNeverChanges ==
    [][\A s \in Sessions :
          rankings[s].share_slug # NoSlug =>
             rankings'[s].share_slug = rankings[s].share_slug]_vars

\* C13: once is_complete is true the ratings, the vote log and
\* votes_completed of the session stay as they are, also when a submit_vote
\* had read the session before the step that completed it.
C13_CompleteIsFrozen ==
    [][\A s \in Sessions :
          rankings[s].is_complete =>
             /\ rankings'[s].player_rankings = rankings[s].player_rankings
             /\ rankings'[s].matchups_completed = rankings[s].matchups_completed
             /\ SelectSeq(votes', LAMBDA v : v.ranking_id = s) = LogSeq(s)]_vars

\* the token of session s is held by no other session
TokenUnique(rows, s) ==
    \A t \in (1..Len(rows)) \ {s} : rows[t].share_slug # rows[s].share_slug

\* C14 as stated: a complete_ranking that succeeds leaves the session with
\* is_complete true and with a share_token.
C14_FinalizeLeavesToken ==
    [][\A s \in Sessions : \A p \in Procs :
          CompleteCommitted(p, s) =>
             /\ rankings'[s].is_complete
             /\ rankings'[s].share_slug # NoSlug]_vars

\* C14 amended: a complete_ranking that succeeds leaves is_complete true,
\* with pairs open or not, bounded or not; it stores a new token, held by no
\* other session, when the request asks for a share link and the session has
\* none, and leaves share_token as it was otherwise; the response carries
\* the stored token.
C14_FinalizeTokenOnRequest ==
    [][\A s \in Sessions : \A p \in Procs :
          CompleteCommitted(p, s) =>
             /\ rankings'[s].is_complete
             /\ IF req[p].generate_share_link /\ rankings[s].share_slug = NoSlug
                THEN rankings'[s].share_slug # NoSlug /\ TokenUnique(rankings', s)
                ELSE rankings'[s].share_slug = rankings[s].share_slug
             /\ req'[p].share_slug = rankings'[s].share_slug]_vars

\* an unbounded session with open pairs finalized with a new token
C14_Witness ==
    \E p \in Procs :
        /\ req[p].pc = "done" /\ req[p].op = "complete" /\ req[p].status = "ok"
        /\ req[p].ranking_id \in Sessions
        /\ LET s == req[p].ranking_id
           IN /\ ~Bounded(s)
              /\ LoggedPairs(s) # AllPairs(s)
              /\ rankings[s].is_complete
              /\ req[p].share_slug # NoSlug
              /\ rankings[s].share_slug = req[p].share_slug
              /\ VoteLog(s) # {}

\* a complete_ranking on session s, complete already, commits and leaves
\* is_complete, the ratings, the vote log and votes_completed as they were
FinalizeAgainNoOp(s) ==
    /\ rankings'[s].is_complete
    /\ rankings'[s].player_rankings = rankings[s].player_rankings
    /\ rankings'[s].matchups_completed = rankings[s].matchups_completed
    /\ votes' = votes

\* C15 as stated: complete_ranking on a complete session changes neither
\* is_complete nor the ratings, the vote log or votes_completed; it returns
\* the token the session has, and assigns one when the session has none.
C15_FinalizeAgainAssignsToken ==
    [][\A s \in Sessions : \A p \in Procs :
          (CompleteCommitted(p, s) /\ rankings[s].is_complete) =>
             /\ FinalizeAgainNoOp(s)
             /\ rankings'[s].share_slug # NoSlug
             /\ rankings[s].share_slug # NoSlug =>
                   /\ rankings'[s].share_slug = rankings[s].share_slug
                   /\ req'[p].share_slug = rankings[s].share_slug]_vars

\* C15 amended: the same, except that a session without a token gets one
\* only when the request asks for a share link; without that it stays
\* without a token and the response carries none.
C15_FinalizeAgainTokenOnRequest ==
    [][\A s \in Sessions : \A p \in Procs :
          (CompleteCommitted(p, s) /\ rankings[s].is_complete) =>
             /\ FinalizeAgainNoOp(s)
             /\ rankings[s].share_slug # NoSlug =>
                   rankings'[s].share_slug = rankings[s].share_slug
             /\ rankings[s].share_slug = NoSlug =>
                   (rankings'[s].share_slug # NoSlug <=> req[p].generate_share_link)
             /\ req'[p].share_slug = rankings'[s].share_slug]_vars

\* complete_ranking has returned the token of a bounded session that its
\* last vote had completed
C15_Witness ==
    \E p \in Procs :
        /\ req[p].pc = "done" /\ req[p].op = "complete" /\ req[p].status = "ok"
        /\ req[p].ranking_id \in Sessions
        /\ AllVoted(req[p].ranking_id)
        /\ Cardinality(VoteLog(req[p].ranking_id)) >= 3
        /\ rankings[req[p].ranking_id].is_complete
        /\ req[p].share_slug # NoSlug
        /\ req[p].share_slug = rankings[req[p].ranking_id].share_slug

\* the handler outcome is the 403
IsForbidden(outcome) == outcome.pc = "done" /\ outcome.status = "Forbidden"

\* caller is not the owner of session s, which has one
NotOwner(s, caller) ==
    rankings[s].session_id # NoToken /\ rankings[s].session_id # caller

\* C16: on a session with an owner, submit_vote and complete_ranking from a
\* caller whose token is missing or is not the owner's end in Forbidden, and
\* a request that ends in Forbidden changes no row; on a session without an
\* owner, and for the owner, neither ends in Forbidden.
C16_ForbiddenIffNotOwner ==
    [][/\ \A s \in Sessions : \A caller \in CallerInputs :
             /\ \A winner_id \in WinnerInputs :
                   IsForbidden(VoteOutcome(s, winner_id, caller)) <=> NotOwner(s, caller)
             /\ \A generate_share_link \in BOOLEAN :
                   IsForbidden(CompleteOutcome(s, caller, generate_share_link))
                      <=> NotOwner(s, caller)
       /\ \A p \in Procs :
             (/\ req[p].pc # "done"
              /\ req'[p].pc = "done"
              /\ req'[p].op \in {"vote", "complete"}
              /\ req'[p].status = "Forbidden") =>
                (rankings' = rankings /\ votes' = votes)]_vars

\* a request on an owned session with votes in its log has ended in Forbidden
C16_Witness ==
    \E p \in Procs :
        /\ req[p].pc = "done" /\ req[p].op = "complete" /\ req[p].status = "Forbidden"
        /\ req[p].ranking_id \in Sessions
        /\ rankings[req[p].ranking_id].session_id = "u1"
        /\ ~rankings[req[p].ranking_id].is_complete
        /\ Cardinality(VoteLog(req[p].ranking_id)) = 2

\* C17: every session that is not complete has a pending matchup (the
\* selector returns a pair for its stored state), and no submit_vote ends in
\* NoPendingMatchup.
C17_IncompleteHasPending ==
    /\ \A s \in Sessions :
          ~rankings[s].is_complete =>
             get_next_matchup(rankings[s].player_rankings, LoggedPairs(s),
                              rankings[s].ranking_size,
                              rankings[s].matchups_completed) # NoPair
    /\ \A p \in Procs :
          (req[p].pc = "done" /\ req[p].op = "vote") => req[p].status # "NoPendingMatchup"

\* C18: a submit_vote that has read the session is accepted and applied on
\* top of what is stored when it commits, also when another submit_vote on
\* the session has committed since it read: the counter goes up by one and
\* the ratings are the stored ones with its vote put through the rating
\* model.
C18_OverlappingVotesBothApplied ==
    [][\A s \in Sessions : \A p \in Procs :
          VoteCommitted(p, s) =>
             /\ rankings'[s].matchups_completed = rankings[s].matchups_completed + 1
             /\ StoredRatings(s)' = ReplayedVote(StoredRatings(s), req[p].vote)]_vars

\* C19: total_matchups of a bounded session is n(n-1)/2 for its n rated
\* items from creation on, never changes, is never exceeded by
\* votes_completed and equals it when a vote completes the session;
\* total_matchups of an unbounded session is null.
C19_TotalMatchupsFixed ==
    [][\A s \in Sessions :
          /\ IF Bounded(s)
             THEN /\ rankings[s].total_matchups = Cardinality(AllPairs(s))
                  /\ rankings[s].matchups_completed <= rankings[s].total_matchups
             ELSE rankings[s].total_matchups = NoTotal
          /\ rankings'[s].total_matchups = rankings[s].total_matchups
          /\ \A p \in Procs :
                (Bounded(s) /\ VoteCommitted(p, s) /\ req'[p].is_complete) =>
                   rankings'[s].matchups_completed = rankings'[s].total_matchups]_vars

\* C20: a submit_vote whose db.commit() fails is not answered with the error
\* at once: its read-modify-write is tried again, and the failure is
\* surfaced only when the retries are used up.
C20_FailedCommitRetried ==
    [][\A p \in Procs :
          (req[p].pc = "vote_commit" /\ req'[p].pc = "done") =>
             req'[p].status = "ok"]_vars

\* the pair the selector returns for what is stored of session s
PendingPair(s) ==
    get_next_matchup(rankings[s].player_rankings, LoggedPairs(s),
                     rankings[s].ranking_size, rankings[s].matchups_completed)

\* the vote log of session s starts with the votes of log, in that order
LogStartsWith(s, log) ==
    /\ Len(LogSeq(s)) >= Len(log)
    /\ \A i \in 1..Len(log) :
          /\ {LogSeq(s)[i].player1_id, LogSeq(s)[i].player2_id} = log[i][1]
          /\ LogSeq(s)[i].winner_id = log[i][2]

\* C21: in a bounded session over the pool [A, B, C] the first matchup is
\* (A, B); after A beats B the ratings are A = 1516, B = 1484 and the pending
\* matchup is (A, C); after C then beats A the pending matchup is (B, C);
\* after the third vote is_complete is true and votes_completed is 3, with
\* total_matchups = 3 throughout.
C21_ThreeItemScenario ==
    \A s \in Sessions :
        (Bounded(s) /\ rankings[s].player_pool = <<"A", "B", "C">>) =>
           /\ rankings[s].total_matchups = 3
           /\ (LogSeq(s) = <<>> /\ ~rankings[s].is_complete) =>
                 PendingPair(s) = <<"A", "B">>
           /\ (Len(LogSeq(s)) = 1 /\ LogStartsWith(s, <<<<{"A", "B"}, "A">>>>)) =>
                 /\ StoredRatings(s)["A"].score = 1516 * ScoreScale
                 /\ StoredRatings(s)["B"].score = 1484 * ScoreScale
                 /\ StoredRatings(s)["C"].score = 1500 * ScoreScale
                 /\ ~rankings[s].is_complete => PendingPair(s) = <<"A", "C">>
           /\ (Len(LogSeq(s)) = 2 /\ ~rankings[s].is_complete
                 /\ LogStartsWith(s, <<<<{"A", "B"}, "A">>, <<{"A", "C"}, "C">>>>)) =>
                 PendingPair(s) = <<"B", "C">>
           /\ (Len(LogSeq(s)) = 3
                 /\ LogStartsWith(s, <<<<{"A", "B"}, "A">>, <<{"A", "C"}, "C">>>>)) =>
                 /\ LogSeq(s)[3].player1_id = "B" /\ LogSeq(s)[3].player2_id = "C"
                 /\ rankings[s].is_complete
                 /\ rankings[s].matchups_completed = 3
           /\ \A p \in Procs :
                 (/\ req[p].pc = "done" /\ req[p].op \in {"start", "vote"}
                  /\ req[p].status = "ok" /\ req[p].ranking_id = s) =>
                    req[p].next_matchup = PendingPair(s)

\* the scenario played to its end
C21_Witness ==
    \E s \in Sessions :
        /\ Bounded(s) /\ rankings[s].player_pool = <<"A", "B", "C">>
        /\ Len(LogSeq(s)) = 3
        /\ LogStartsWith(s, <<<<{"A", "B"}, "A">>, <<{"A", "C"}, "C">>>>)
        /\ rankings[s].is_complete
        /\ \E p \in Procs : req[p].pc = "done" /\ req[p].op = "vote" /\ req[p].is_complete

\* a get_ranking or get_shared_ranking of worker p has answered with a ranking
Materialized(p) ==
    req[p].pc = "done" /\ req[p].op \in {"get", "shared"} /\ req[p].status = "ok"

\* position of the first occurrence of id x in the pool of session s
PoolPosition(s, x) ==
    CHOOSE i \in 1..Len(rankings[s].player_pool) :
        /\ rankings[s].player_pool[i] = x
        /\ \A j \in 1..(i - 1) : rankings[s].player_pool[j] # x

\* C22: the materialized ranking lists every item of the pool exactly once,
\* with ranks 1..n in sequence, in non-increasing order of score; items of
\* equal score keep their pool order; each entry carries the item's stored
\* wins and losses and its score rounded to one decimal.
C22_RankingSortedStable ==
    \A p \in Procs :
        Materialized(p) =>
            LET s == req[p].ranking_id
                cr == req[p].current_rankings
            IN /\ \A i \in 1..Len(cr) : cr[i].rank = i
               /\ {cr[i].player_id : i \in 1..Len(cr)} = Range(rankings[s].player_pool)
               /\ \A i, j \in 1..Len(cr) : i # j => cr[i].player_id # cr[j].player_id
               /\ \A i \in 1..Len(cr) :
                     /\ cr[i].wins = StoredRatings(s)[cr[i].player_id].wins
                     /\ cr[i].losses = StoredRatings(s)[cr[i].player_id].losses
                     /\ cr[i].score = RoundedScore(StoredRatings(s)[cr[i].player_id].score)
               /\ \A i, j \in 1..Len(cr) :
                     i < j =>
                        LET a == StoredRatings(s)[cr[i].player_id].score
                            b == StoredRatings(s)[cr[j].player_id].score
                        IN /\ a >= b
                           /\ cr[i].score >= cr[j].score
                           /\ a = b => PoolPosition(s, cr[i].player_id)
                                          < PoolPosition(s, cr[j].player_id)

\* B has beaten A in the pool [A, B, C, D]: B leads, C and D tie in pool
\* order, A is last
C22_Witness ==
    \E p \in Procs :
        /\ Materialized(p)
        /\ Len(req[p].current_rankings) = 4
        /\ req[p].current_rankings[1].player_id = "B"
        /\ req[p].current_rankings[2].player_id = "C"
        /\ req[p].current_rankings[2].score = req[p].current_rankings[3].score
        /\ req[p].current_rankings[4].player_id = "A"

\* C23: get_ranking and get_shared_ranking change no row; get_ranking
\* answers for every session, complete or not, and get_shared_ranking for
\* every session that has a token; the answer is determined by the stored
\* row, so two calls with nothing stored in between answer alike.
C23_MaterializationReadOnly ==
    [][/\ \A s \in Sessions :
             /\ GetOutcome(s).status = "ok"
             /\ rankings[s].share_slug # NoSlug =>
                   /\ SharedOutcome(rankings[s].share_slug).status = "ok"
                   /\ SharedOutcome(rankings[s].share_slug).ranking_id = s
       /\ \A p \in Procs :
             (/\ req[p].pc = "idle"
              /\ req'[p].pc = "done"
              /\ req'[p].op \in {"get", "shared"}) =>
                /\ rankings' = rankings
                /\ votes' = votes
                /\ req'[p].status = "ok" =>
                      /\ req'[p].ranking_id \in Sessions
                      /\ req'[p] = GetRankingResponse(req'[p].op, req'[p].ranking_id)]_vars

\* get_ranking has answered for a session with votes that is not complete
C23_Witness ==
    \E p \in Procs :
        /\ Materialized(p) /\ req[p].op = "get"
        /\ ~req[p].is_complete
        /\ req[p].matchups_completed = 2
        /\ Cardinality(VoteLog(req[p].ranking_id)) = 2

\* C24: an accepted vote appends one vote record, for the pending pair and
\* with one of its two items as winner; the winner's wins and the loser's
\* losses go up by 1, the two scores are those of the rating update, the
\* pair joins the completed pairs, votes_completed goes up by 1, and the
\* rating entry of every other item stays as it was.
C24_VoteEffects ==
    [][\A s \in Sessions : \A p \in Procs :
          VoteCommitted(p, s) =>
             LET v == votes'[Len(votes')]
                 pair == PendingPair(s)
                 w == v.winner_id
                 l == IF v.player1_id = w THEN v.player2_id ELSE v.player1_id
                 old == StoredRatings(s)
                 new == StoredRatings(s)'
                 upd == compute_elo_update(old[w].score, old[l].score)
             IN /\ votes' = Append(votes, v)
                /\ v.ranking_id = s
                /\ pair # NoPair
                /\ <<v.player1_id, v.player2_id>> = pair
                /\ w \in {pair[1], pair[2]} /\ l \in {pair[1], pair[2]} /\ w # l
                /\ {pair[1], pair[2]} \notin LoggedPairs(s)
                /\ LoggedPairs(s)' = LoggedPairs(s) \cup {{pair[1], pair[2]}}
                /\ new[w] = [score |-> upd[1], wins |-> old[w].wins + 1, losses |-> old[w].losses]
                /\ new[l] = [score |-> upd[2], wins |-> old[l].wins, losses |-> old[l].losses + 1]
                /\ \A x \in RatedIds(s) \ {w, l} : new[x] = old[x]
                /\ DOMAIN new = DOMAIN old
                /\ rankings'[s].matchups_completed = rankings[s].matchups_completed + 1]_vars

\* a vote accepted in a session over four items, two of them never compared
C24_Witness ==
    \E p \in Procs :
        /\ req[p].pc = "done" /\ req[p].op = "vote" /\ req[p].status = "ok"
        /\ req[p].ranking_id \in Sessions
        /\ LET s == req[p].ranking_id
           IN /\ Cardinality(RatedIds(s)) = 4
              /\ Len(LogSeq(s)) = 1
              /\ LogSeq(s)[1].winner_id = LogSeq(s)[1].player2_id
              /\ Cardinality({x \in RatedIds(s) :
                                StoredRatings(s)[x].wins + StoredRatings(s)[x].losses = 0}) = 2

\* C25: the vote log of a session holds at most one record per unordered
\* pair of items, also when submit_vote requests on the session overlap.
C25_OneVotePerPair ==
    \A s \in Sessions :
        \A i, j \in VoteLog(s) :
            {votes[i].player1_id, votes[i].player2_id}
               = {votes[j].player1_id, votes[j].player2_id} => i = j

\* scores (in points) the rating update is tried on while the vote log is
\* empty, next to those the sessions reach
EloInputs == {1450, 1484, 1500, 1516, 1550}

RECURSIVE SumOfScores(_)
SumOfScores(player_scores) ==
    IF player_scores = <<>> THEN 0
    ELSE player_scores[Len(player_scores)].score
         + SumOfScores(SubSeq(player_scores, 1, Len(player_scores) - 1))

\* C26: the rating update never lowers the winner's score, never raises the
\* loser's, and adds to the winner what it takes from the loser (at most
\* k), so the scores of a session always sum to 1500 times the number of
\* rated items.
C26_ZeroSumMonotone ==
    [][/\ votes = <<>> => \A a, b \in EloInputs :
             LET w == a * ScoreScale
                 l == b * ScoreScale
                 new == compute_elo_update(w, l)
             IN /\ new[1] >= w
                /\ new[2] <= l
                /\ new[1] - w = l - new[2]
                /\ new[1] - w <= K * ScoreScale
       /\ \A s \in Sessions :
             SumOfScores(rankings[s].player_rankings)
                = StartScore * ScoreScale * Len(rankings[s].player_rankings)
       /\ \A s \in Sessions : \A p \in Procs :
             VoteCommitted(p, s) =>
                LET v == votes'[Len(votes')]
                    w == v.winner_id
                    l == IF v.player1_id = w THEN v.player2_id ELSE v.player1_id
                IN /\ StoredRatings(s)'[w].score >= StoredRatings(s)[w].score
                   /\ StoredRatings(s)'[l].score <= StoredRatings(s)[l].score
                   /\ StoredRatings(s)'[w].score - StoredRatings(s)[w].score
                         = StoredRatings(s)[l].score - StoredRatings(s)'[l].score]_vars

\* six votes in, with scores well above and well below the start score
C26_Witness ==
    \E s \in Sessions :
        /\ Len(LogSeq(s)) = 6
        /\ \E x, y \in RatedIds(s) :
              /\ StoredRatings(s)[x].score > 1540 * ScoreScale
              /\ StoredRatings(s)[y].score < 1460 * ScoreScale
        /\ \E p \in Procs : req[p].pc = "done" /\ req[p].op = "vote" /\ req[p].status = "ok"

\* C27: a session that has a share_token is complete.
C27_TokenImpliesComplete ==
    \A s \in Sessions : rankings[s].share_slug # NoSlug => rankings[s].is_complete

\* the last vote of a session has stored a token with is_complete
C27_Witness ==
    \E p \in Procs :
        /\ req[p].pc = "done" /\ req[p].op = "vote" /\ req[p].status = "ok"
        /\ req[p].is_complete
        /\ req[p].share_slug # NoSlug
        /\ rankings[req[p].ranking_id].share_slug = req[p].share_slug
        /\ rankings[req[p].ranking_id].is_complete
        /\ Cardinality(VoteLog(req[p].ranking_id)) = 3

\* C28: the pair a start_ranking or submit_vote hands to the client is the
\* pair the selector gives for what is then stored; it stays that pair until
\* a vote on the session is accepted; and an accepted vote is recorded
\* against it.  So every vote is recorded against the pair most recently
\* presented for its session.
C28_RecordedPairWasPresented ==
    [][/\ \A p \in Procs : \A s \in 1..(Len(rankings) + 1) :
             (/\ req[p].pc # "done"
              /\ req'[p].pc = "done"
              /\ req'[p].op \in {"start", "vote"}
              /\ req'[p].status = "ok"
              /\ req'[p].ranking_id = s) =>
                req'[p].next_matchup = PendingPair(s)'
       /\ \A s \in Sessions :
             \/ \E p \in Procs : VoteCommitted(p, s)
             \/ PendingPair(s)' = PendingPair(s)
       /\ \A s \in Sessions : \A p \in Procs :
             VoteCommitted(p, s) =>
                /\ PendingPair(s) # NoPair
                /\ ~rankings[s].is_complete
                /\ <<votes'[Len(votes')].player1_id, votes'[Len(votes')].player2_id>>
                      = PendingPair(s)]_vars

\* a second vote recorded, and a third pair presented, in a session over
\* four items
C28_Witness ==
    \E p \in Procs :
        /\ req[p].pc = "done" /\ req[p].op = "vote" /\ req[p].status = "ok"
        /\ req[p].ranking_id \in Sessions
        /\ LET s == req[p].ranking_id
           IN /\ Cardinality(RatedIds(s)) = 4
              /\ Len(LogSeq(s)) = 2
              /\ LogSeq(s)[2].player1_id # LogSeq(s)[1].player1_id
              /\ req[p].next_matchup # NoPair
              /\ req[p].next_matchup = PendingPair(s)

RECURSIVE SumOfWins(_)
SumOfWins(player_scores) ==
    IF player_scores = <<>> THEN 0
    ELSE player_scores[Len(player_scores)].wins
         + SumOfWins(SubSeq(player_scores, 1, Len(player_scores) - 1))

RECURSIVE SumOfLosses(_)
SumOfLosses(player_scores) ==
    IF player_scores = <<>> THEN 0
    ELSE player_scores[Len(player_scores)].losses
         + SumOfLosses(SubSeq(player_scores, 1, Len(player_scores) - 1))

\* C29: in every session the wins of all items and the losses of all items
\* each sum to votes_completed, and the wins plus losses of an item is the
\* number of completed pairs it is in, at most n - 1.
C29_WinsLossesMatchPairs ==
    \A s \in Sessions :
        /\ SumOfWins(rankings[s].player_rankings) = rankings[s].matchups_completed
        /\ SumOfLosses(rankings[s].player_rankings) = rankings[s].matchups_completed
        /\ \A x \in RatedIds(s) :
              /\ StoredRatings(s)[x].wins + StoredRatings(s)[x].losses
                    = Cardinality({pr \in LoggedPairs(s) : x \in pr})
              /\ StoredRatings(s)[x].wins + StoredRatings(s)[x].losses
                    <= Cardinality(RatedIds(s)) - 1

\* all six pairs of four items voted: every item has been in three
C29_Witness ==
    \E s \in Sessions :
        /\ Cardinality(RatedIds(s)) = 4
        /\ rankings[s].matchups_completed = 6
        /\ \A x \in RatedIds(s) :
              StoredRatings(s)[x].wins + StoredRatings(s)[x].losses = 3
        /\ \E x \in RatedIds(s) : StoredRatings(s)[x].wins = 2 /\ StoredRatings(s)[x].losses = 1

\* C30: complete_ranking changes only is_complete and share_slug; the
\* ratings, the vote log, matchups_completed, the pool, ranking_size and
\* total_matchups of the session are the same after it as before it, and no
\* other session changes.
C30_FinalizeFrame ==
    [][\A s \in Sessions : \A p \in Procs :
          CompleteCommitted(p, s) =>
             /\ rankings'[s] = [rankings[s] EXCEPT !.is_complete = rankings'[s].is_complete,
                                                   !.share_slug = rankings'[s].share_slug]
             /\ rankings'[s].player_rankings = rankings[s].player_rankings
             /\ rankings'[s].matchups_completed = rankings[s].matchups_completed
             /\ rankings'[s].player_pool = rankings[s].player_pool
             /\ rankings'[s].ranking_size = rankings[s].ranking_size
             /\ rankings'[s].total_matchups = rankings[s].total_matchups
             /\ votes' = votes
             /\ Len(rankings') = Len(rankings)
             /\ \A t \in Sessions \ {s} : rankings'[t] = rankings[t]]_vars

\* a bounded session with two votes logged and one pair open, finalized:
\* the counter, the ratings and the total stay
C30_Witness ==
    \E p \in Procs :
        /\ req[p].pc = "done" /\ req[p].op = "complete" /\ req[p].status = "ok"
        /\ req[p].ranking_id \in Sessions
        /\ LET s == req[p].ranking_id
           IN /\ Bounded(s)
              /\ rankings[s].is_complete
              /\ rankings[s].matchups_completed = 2
              /\ Cardinality(VoteLog(s)) = 2
              /\ rankings[s].total_matchups = 3
              /\ \E x \in RatedIds(s) : StoredRatings(s)[x].wins = 2

====
